---- MODULE Spec2Model ----
(***************************************************************************)
(* Model of scripts/add_school.py: the manifest patcher (update_manifest), *)
(* the chain patcher (add_domain_to_js) and the orchestrator (main).       *)
(*                                                                         *)
(* Text is a sequence of tokens.  A token is a short piece of text that    *)
(* the code never looks inside: the apostrophe, a blank, the newline, the  *)
(* literal text "hostname === " of the regular expression, a piece of a    *)
(* domain name, a piece of JavaScript.  Every string operation of the code *)
(* (regular-expression match, strip, substring test, lower, readlines,     *)
(* writelines, f-string concatenation) is modelled on token sequences.     *)
(***************************************************************************)
EXTENDS Integers, Sequences, FiniteSets, TLC

VARIABLES
    argv,       \* sys.argv of the current run (a sequence of strings)
    domain,     \* main's local `domain` (set at line 129), or the argument of a direct call
    manifest,   \* the file manifest.json
    js,         \* the files content.js, background.js, popup.js
    pc,         \* position of the run inside main (or inside the direct-call driver)
    status,     \* exit status of the finished run
    err,        \* why the run ended
    calls,      \* the patcher calls made so far, in order, with their effect
    manifest0,  \* manifest.json as it was when the current run started
    js0,        \* the JS files as they were when the current run started
    partial,    \* TRUE once a run was interrupted after update_manifest had written
    runs        \* number of runs started

vars == <<argv, domain, manifest, js, pc, status, err, calls, manifest0, js0, partial, runs>>

\* ───────────────────────────── bounds ─────────────────────────────

\* Longest document (in lines) given to the chain patcher.
MaxLines == 2

\* Most runs of the orchestrator in one behaviour.
MaxRuns == 2

\* ───────────────────────────── tokens ─────────────────────────────

SP == " "
NL == "\n"
Q == "'"
HOST == "hostname === "
OR == "||"

\* str.isspace on a token (what \s matches and what strip() removes).
IsSpace(t) == t \in {SP, NL}

\* str.lower on a token.
LowerTok(t) == IF t = "A.EDU" THEN "a.edu" ELSE t

\* str.lower (line 129).
Lower(s) == [i \in 1..Len(s) |-> LowerTok(s[i])]

\* `sub in s` on strings: s has sub as a contiguous piece.
Contains(s, sub) ==
    \E k \in 0..(Len(s) - Len(sub)) :
        \A i \in 1..Len(sub) : s[k + i] = sub[i]

\* The least member of a set of positions, 0 for the empty set.
FirstOf(S) == IF S = {} THEN 0 ELSE CHOOSE x \in S : \A y \in S : x <= y

\* The greatest member of a set of positions, 0 for the empty set.
LastOf(S) == IF S = {} THEN 0 ELSE CHOOSE x \in S : \A y \in S : x >= y

\* The piece of s from position a to position b, empty when there is none.
Piece(s, a, b) == IF a = 0 THEN <<>> ELSE SubSeq(s, a, b)

\* str.strip: drop leading and trailing whitespace.
Strip(s) ==
    Piece(s, FirstOf({i \in 1..Len(s) : ~IsSpace(s[i])}),
             LastOf({i \in 1..Len(s) : ~IsSpace(s[i])}))

\* Concatenation of a sequence of strings (writelines, "".join).
RECURSIVE Concat(_)
Concat(ss) == IF ss = <<>> THEN <<>> ELSE Head(ss) \o Concat(Tail(ss))

RECURSIVE readlines(_)

\* The first line of a text whose first newline is at position cut (0: it has
\* none), then the lines of the rest.
split_at(text, cut) ==
    IF cut = 0 THEN <<text>>
    ELSE <<SubSeq(text, 1, cut)>> \o readlines(SubSeq(text, cut + 1, Len(text)))

\* f.readlines(): cut the text after every newline; a last line without
\* newline is kept as it is.
readlines(text) ==
    IF text = <<>> THEN <<>>
    ELSE split_at(text, FirstOf({i \in 1..Len(text) : text[i] = NL}))

\* f.writelines(new_lines).
writelines(lines) == Concat(lines)

\* ─────────────────────── the chain patcher ────────────────────────

NoMatch == [ok |-> FALSE, indent |-> <<>>, match_part |-> <<>>, tail |-> <<>>]

\* Group 3, (.*?)$ : the rest of the line without its final newline ("." matches
\* no newline and "$" matches before a final newline).
tail_of(rest) ==
    IF rest # <<>> /\ rest[Len(rest)] = NL THEN SubSeq(rest, 1, Len(rest) - 1) ELSE rest

\* The groups of the match: the comparison starts at h, its closing apostrophe
\* is at c.  No match when the literal is empty ([^']+) or a newline is left in
\* the tail.
match_groups(line, h, c, tail) ==
    IF c = h + 2 \/ (\E i \in 1..Len(tail) : tail[i] = NL)
    THEN NoMatch
    ELSE [ok |-> TRUE,
          indent |-> SubSeq(line, 1, h - 1),
          match_part |-> SubSeq(line, h, c),
          tail |-> tail]

\* The closing apostrophe: the first one after the opening apostrophe at h + 1.
match_close(line, h, c) ==
    IF c = 0 THEN NoMatch
    ELSE match_groups(line, h, c, tail_of(SubSeq(line, c + 1, Len(line))))

\* hostname === ' at position h.
match_at(line, h) ==
    IF h = 0 \/ line[h] # HOST \/ h + 1 > Len(line) \/ line[h + 1] # Q
    THEN NoMatch
    ELSE match_close(line, h, FirstOf({i \in (h + 2)..Len(line) : line[i] = Q}))

\* Faulty variant of pattern_match: re.search semantics, the comparison may be preceded by
\* any text (the text before it is taken as the indent group).
pattern_search(line) == match_at(line, FirstOf({i \in 1..Len(line) : line[i] = HOST}))

\* pattern.match(line) for  ^(\s*)(hostname === '[^']+')(.*?)$  (lines 73-75, 83):
\* leading whitespace, the text "hostname === ", an apostrophe, one or more
\* characters that are no apostrophe, an apostrophe, then the tail.
pattern_match(line) == match_at(line, FirstOf({i \in 1..Len(line) : ~IsSpace(line[i])}))

\* f"'{domain}'"
Quoted(d) == <<Q>> \o d \o <<Q>>

\* Faulty variant of domain_on_line: the duplicate check is missing.
domain_on_line_never(line, d) == FALSE

\* Line 95: f"'{domain}'" in line.
domain_on_line(line, d) == Contains(line, Quoted(d))

\* Faulty variant of is_chain_end: a mid-chain line (tail "||") is taken as the end too.
is_chain_end_any(tail) == Strip(tail) # <<>>

\* Line 92 and 100: tail_stripped and tail_stripped != "||".
is_chain_end(tail) == Strip(tail) \notin {<<>>, <<OR>>}

\* Line 105: f"{indent}{_match_part} ||\n".
new_current(m) == m.indent \o m.match_part \o <<SP, OR, NL>>

\* Faulty variant of new_entry: the indent is not copied to the inserted line.
new_entry_noindent(m, d) == <<HOST>> \o Quoted(d) \o m.tail \o <<NL>>

\* Line 106: f"{indent}hostname === '{domain}'{tail}\n".
new_entry(m, d) == m.indent \o <<HOST>> \o Quoted(d) \o m.tail \o <<NL>>

\* Lines 85-114 for one line and its match m: the lines appended to new_lines
\* and the increment of `changes`.
patch_matched(line, m, d) ==
    IF m.ok /\ ~domain_on_line(line, d) /\ is_chain_end(m.tail)
    THEN [out |-> <<new_current(m), new_entry(m, d)>>, n |-> 1]
    ELSE [out |-> <<line>>, n |-> 0]

\* The body of the while loop for one line (lines 82-114).
patch_line(line, d) == patch_matched(line, pattern_match(line), d)

\* new_lines and changes: what one line adds, before what the later lines add.
loop_step(one, more) ==
    [new_lines |-> one.out \o more.new_lines, changes |-> one.n + more.changes]

\* The while loop (lines 77-114) from line i on.
RECURSIVE patch_lines(_, _, _)
patch_lines(lines, i, d) ==
    IF i > Len(lines) THEN [new_lines |-> <<>>, changes |-> 0]
    ELSE loop_step(patch_line(lines[i], d), patch_lines(lines, i + 1, d))

\* Lines 116-120: the file is written only if changes > 0; the return value.
write_back(text, r) ==
    [text |-> IF r.changes > 0 THEN writelines(r.new_lines) ELSE text,
     wrote |-> r.changes > 0,
     changes |-> r.changes]

\* add_domain_to_js(filepath, domain) (lines 60-120) on the text of the file:
\* the text the file holds afterwards, whether it was written, and the return value.
add_domain_to_js(text, d) == write_back(text, patch_lines(readlines(text), 1, d))

\* ────────────────────── the manifest patcher ──────────────────────

DQ == "\""

\* f"*://{domain}/*" (line 36).
Pattern(d) == <<"*://">> \o d \o <<"/*">>

\* `x in list` on a list of strings.
InList(x, list) == \E i \in 1..Len(list) : list[i] = x

\* sep.join(ss).
Join(ss, sep) ==
    Concat([i \in 1..Len(ss) |-> IF i = 1 THEN ss[i] ELSE sep \o ss[i]])

\* A JSON list of strings as text.
DumpList(list) ==
    <<"[">> \o Join([i \in 1..Len(list) |-> <<DQ>> \o list[i] \o <<DQ>>], <<", ">>) \o <<"]">>

\* One object of content_scripts as text.
DumpScript(cs) ==
    <<"{">> \o (IF cs.has_matches THEN <<DQ, "matches", DQ, ": ">> \o DumpList(cs.matches)
                ELSE <<>>) \o <<"}">>

\* json.dump(data, f, indent=2); f.write("\n") (lines 47-49): the text of the
\* document, its keys and strings in order (the layout whitespace is left out).
dumps(data) ==
    <<"{">>
    \o Join(
        (IF data.has_name THEN <<(<<DQ, "name", DQ, ": ", DQ>> \o data.name \o <<DQ>>)>>
         ELSE <<>>)
        \o (IF data.has_hp
            THEN <<(<<DQ, "host_permissions", DQ, ": ">> \o DumpList(data.host_permissions))>>
            ELSE <<>>)
        \o (IF data.has_cs
            THEN <<(<<DQ, "content_scripts", DQ, ": [">>
                    \o Join([i \in 1..Len(data.content_scripts) |->
                                DumpScript(data.content_scripts[i])], <<", ">>)
                    \o <<"]">>)>>
            ELSE <<>>),
        <<", ">>)
    \o <<"}", NL>>

NoData ==
    [has_name |-> FALSE, name |-> <<>>, has_hp |-> FALSE, host_permissions |-> <<>>,
     has_cs |-> FALSE, content_scripts |-> <<>>]

\* f.read() of manifest.json (lines 143-144): the text of the file.
manifest_text(m) == IF m.valid THEN dumps(m.data) ELSE m.raw

\* data.get("host_permissions", []) (line 39).
get_host_permissions(data) == IF data.has_hp THEN data.host_permissions ELSE <<>>

\* data.get("content_scripts", []) (line 43).
get_content_scripts(data) == IF data.has_cs THEN data.content_scripts ELSE <<>>

\* cs.get("matches", []) (line 44).
get_matches(cs) == IF cs.has_matches THEN cs.matches ELSE <<>>

\* Lines 39-40: the membership test reads through get(), the append indexes the
\* dict, so it raises KeyError when the key is absent.
patch_host_permissions(data, p) ==
    IF InList(p, get_host_permissions(data))
    THEN [raised |-> "", data |-> data]
    ELSE IF ~data.has_hp
    THEN [raised |-> "KeyError", data |-> data]
    ELSE [raised |-> "",
          data |-> [data EXCEPT !.host_permissions = Append(@, p)]]

\* Lines 44-45 for one object of content_scripts: is the key missing that the
\* append needs?
script_raises(cs, p) == ~InList(p, get_matches(cs)) /\ ~cs.has_matches

\* Lines 44-45 for one object of content_scripts that has what the append needs.
patch_script(cs, p) ==
    IF InList(p, get_matches(cs)) THEN cs ELSE [cs EXCEPT !.matches = Append(@, p)]

\* Lines 43-45: the loop over content_scripts; it stops at the first KeyError.
patch_scripts(data, p) ==
    IF \E i \in 1..Len(get_content_scripts(data)) : script_raises(data.content_scripts[i], p)
    THEN [raised |-> "KeyError", data |-> data]
    ELSE IF ~data.has_cs THEN [raised |-> "", data |-> data]
    ELSE [raised |-> "",
          data |-> [data EXCEPT !.content_scripts =
                       [i \in 1..Len(@) |-> patch_script(@[i], p)]]]

\* Lines 38-45: host_permissions, then content_scripts unless line 40 raised.
patch_after(hp, p) == IF hp.raised # "" THEN hp ELSE patch_scripts(hp.data, p)

\* Lines 36-45 on the loaded document.
patch_data(data, p) == patch_after(patch_host_permissions(data, p), p)

\* Lines 47-49, reached only if nothing was raised: the file is rewritten.
dump_after(m, r) ==
    IF r.raised # ""
    THEN [raised |-> r.raised, wrote |-> FALSE, manifest |-> m]
    ELSE [raised |-> "", wrote |-> TRUE, manifest |-> [m EXCEPT !.data = r.data]]

\* Faulty variant of update_manifest: the file is opened for writing (and so truncated)
\* before it is parsed.
update_manifest_truncfirst(m, d) ==
    IF ~m.valid
    THEN [raised |-> "JSONDecodeError", wrote |-> TRUE,
          manifest |-> [m EXCEPT !.raw = <<>>]]
    ELSE dump_after(m, patch_data(m.data, Pattern(d)))

\* Faulty variant of update_manifest: the document is written back as it was loaded.
update_manifest_nodump(m, d) ==
    IF ~m.valid
    THEN [raised |-> "JSONDecodeError", wrote |-> FALSE, manifest |-> m]
    ELSE dump_after(m, [raised |-> patch_data(m.data, Pattern(d)).raised, data |-> m.data])

\* update_manifest(filepath, domain) (lines 32-51): the exception it raises (""
\* for none), whether the file was written, and the file afterwards.  The file is
\* opened for writing only at line 47, after the load and both patches.
update_manifest(m, d) ==
    IF ~m.valid
    THEN [raised |-> "JSONDecodeError", wrote |-> FALSE, manifest |-> m]
    ELSE dump_after(m, patch_data(m.data, Pattern(d)))

\* ───────────────────────── the orchestrator ───────────────────────

JsFiles == {"content.js", "background.js", "popup.js"}

\* os.path.isfile over [manifest, content_js, background_js, popup_js] (lines 137-140).
all_files_exist(m, j) == m.exists /\ \A f \in JsFiles : j[f].exists

\* Faulty variant of already_exists: equality in place of the substring test.
already_exists_equal(text, d) == text = d

\* Line 144: domain in f.read(), a substring test on the raw text of the manifest.
already_exists(text, d) == Contains(text, d)

\* The record of one patcher call.
Call(op, file, before, after, wrote, n, raised) ==
    [op |-> op, file |-> file, before |-> before, after |-> after,
     wrote |-> wrote, n |-> n, raised |-> raised]

\* sys.exit(code), or the interpreter ending on an uncaught exception (status 1).
Exit(code, why) ==
    /\ pc' = "done"
    /\ status' = code
    /\ err' = why

\* Lines 124-129: the argument count, then domain = sys.argv[2].lower().
CheckArgs ==
    /\ pc = "start"
    /\ IF Len(argv) # 3
       THEN Exit(1, "usage") /\ UNCHANGED domain
       ELSE /\ domain' = Lower(argv[3])
            /\ pc' = "files"
            /\ UNCHANGED <<status, err>>
    /\ UNCHANGED <<argv, manifest, js, calls, manifest0, js0, partial, runs>>

\* Lines 136-140: every file must exist.
CheckFiles ==
    /\ pc = "files"
    /\ IF ~all_files_exist(manifest, js)
       THEN Exit(1, "missing")
       ELSE pc' = "exists" /\ UNCHANGED <<status, err>>
    /\ UNCHANGED <<argv, domain, manifest, js, calls, manifest0, js0, partial, runs>>

\* Lines 142-145: exit 2 when the domain occurs in the manifest's text.
CheckExists ==
    /\ pc = "exists"
    /\ IF already_exists(manifest_text(manifest), domain)
       THEN Exit(2, "exists")
       ELSE pc' = "manifest" /\ UNCHANGED <<status, err>>
    /\ UNCHANGED <<argv, domain, manifest, js, calls, manifest0, js0, partial, runs>>

\* Line 148: update_manifest(manifest, domain); an exception it raises is not
\* caught and ends the run.
UpdateManifest ==
    /\ pc = "manifest"
    /\ \E r \in {update_manifest(manifest, domain)} :
           /\ manifest' = r.manifest
           /\ calls' = Append(calls,
                  Call("update_manifest", "manifest.json", manifest_text(manifest),
                       manifest_text(r.manifest), r.wrote, 0, r.raised))
           /\ IF r.raised # ""
              THEN Exit(1, r.raised)
              ELSE pc' = "content.js" /\ UNCHANGED <<status, err>>
    /\ UNCHANGED <<argv, domain, js, manifest0, js0, partial, runs>>

\* One of lines 151, 155, 159: n = add_domain_to_js(<file>, domain).
PatchFile(f, next) ==
    /\ pc = f
    /\ \E r \in {add_domain_to_js(js[f].text, domain)} :
           /\ js' = [js EXCEPT ![f].text = r.text]
           /\ calls' = Append(calls,
                  Call("add_domain_to_js", f, js[f].text, r.text, r.wrote, r.changes, ""))
    /\ pc' = next
    /\ UNCHANGED <<argv, domain, manifest, manifest0, js0, partial, runs>>

\* Lines 150-152.
PatchContent == PatchFile("content.js", "background.js") /\ UNCHANGED <<status, err>>

\* Lines 154-156.
PatchBackground == PatchFile("background.js", "popup.js") /\ UNCHANGED <<status, err>>

\* Lines 158-160, then main returns: exit status 0.
PatchPopup == PatchFile("popup.js", "done") /\ status' = 0 /\ err' = "" 

\* The process is stopped from outside between update_manifest and the end of
\* main: nothing is rolled back (main has no handler, lines 147-160).
Interrupt ==
    /\ pc \in JsFiles
    /\ pc' = "killed"
    /\ partial' = TRUE
    /\ UNCHANGED <<argv, domain, manifest, js, status, err, calls, manifest0, js0, runs>>

\* The tool is run again with the same arguments on the files as they are.
Rerun ==
    /\ pc \in {"done", "killed"}
    /\ runs < MaxRuns
    /\ runs' = runs + 1
    /\ pc' = "start"
    /\ status' = -1
    /\ err' = ""
    /\ domain' = <<>>
    /\ calls' = <<>>
    /\ manifest0' = manifest
    /\ js0' = js
    /\ UNCHANGED <<argv, manifest, js, partial>>

\* ───────────────────────────── inputs ─────────────────────────────

Domains == {<<"a.edu">>, <<"b.edu">>, <<"A.EDU">>}

PatternLists ==
    {<<>>, <<Pattern(<<"a.edu">>)>>, <<Pattern(<<"a.edu">>), Pattern(<<"b.edu">>)>>,
     <<Pattern(<<"canvas.", "b.edu">>)>>, <<Pattern(<<"A.EDU">>)>>}

ScriptInputs ==
    {[has_matches |-> FALSE, matches |-> <<>>]}
    \cup {[has_matches |-> TRUE, matches |-> l] : l \in PatternLists}

DataInputs ==
    {[has_name |-> hn, name |-> IF hn THEN <<"for ", "b.edu">> ELSE <<>>,
      has_hp |-> hh, host_permissions |-> hp,
      has_cs |-> hc, content_scripts |-> cs] :
        hn \in BOOLEAN, hh \in {TRUE}, hp \in PatternLists, hc \in {TRUE},
        cs \in {<<>>} \cup {<<c>> : c \in ScriptInputs}}
    \cup {[NoData EXCEPT !.has_cs = TRUE, !.content_scripts = <<c>>] : c \in ScriptInputs}
    \cup {[NoData EXCEPT !.has_hp = TRUE, !.host_permissions = hp] : hp \in PatternLists}
    \cup {NoData}

ManifestInputs ==
    {[exists |-> TRUE, valid |-> TRUE, raw |-> <<>>, data |-> d] : d \in DataInputs}
    \cup {[exists |-> TRUE, valid |-> FALSE, raw |-> r, data |-> NoData] :
            r \in {<<"{">>, <<"{", "b.edu">>}}
    \cup {[exists |-> FALSE, valid |-> FALSE, raw |-> <<>>, data |-> NoData]}

Cmp(lit) == <<HOST, Q>> \o lit \o <<Q>>

NoFile == [exists |-> FALSE, text |-> <<>>]

File(text) == [exists |-> TRUE, text |-> text]

JsInputs ==
    {NoFile,
     File(<<"function f() {", NL>>),
     File(<<SP, "return ">> \o Cmp(<<"canvas.", "b.edu">>) \o <<SP, OR, NL>>
          \o <<SP>> \o Cmp(<<"a.edu">>) \o <<";", NL>>)}

ArgvInputs ==
    {<<<<"add_school.py">>, <<"proj">>, d>> : d \in Domains}
    \cup {<<<<"add_school.py">>, <<"proj">>>>}

\* A run of main on the files of the project directory.
Init ==
    /\ argv \in ArgvInputs
    /\ manifest \in ManifestInputs
    /\ js \in [JsFiles -> JsInputs]
    /\ domain = <<>>
    /\ pc = "start"
    /\ status = -1
    /\ err = ""
    /\ calls = <<>>
    /\ manifest0 = manifest
    /\ js0 = js
    /\ partial = FALSE
    /\ runs = 1

Next ==
    \/ CheckArgs
    \/ CheckFiles
    \/ CheckExists
    \/ UpdateManifest
    \/ PatchContent
    \/ PatchBackground
    \/ PatchPopup
    \/ Interrupt
    \/ Rerun

Spec == Init /\ [][Next]_vars

\* ─────────────── the chain patcher called on its own ──────────────

Indents == {<<>>, <<SP, SP>>}

Literals == {<<"a.edu">>, <<"b.edu">>}

Tails == {<<>>, <<SP, OR>>, <<";">>, <<") {">>}

\* Lines without their newline: comparison lines of every indent, literal and
\* tail, and lines of other shapes.
LineInputs ==
    {i \o Cmp(l) \o t : i \in Indents, l \in Literals, t \in Tails}
    \cup {<<SP, "if (">> \o Cmp(<<"a.edu">>) \o <<") {">>,
          Cmp(<<"a.edu">>) \o <<SP, OR, SP>> \o Cmp(<<"b.edu">>) \o <<";">>,
          <<SP>> \o Cmp(<<"a.edu">>) \o <<SP, OR, SP>>,
          <<SP, SP>> \o Cmp(<<"canvas.", "b.edu">>) \o <<") {">>,
          <<HOST, Q, Q, ";">>,
          <<HOST, Q, "a.edu", ";">>,
          <<"}">>,
          <<>>}

\* Documents of at most MaxLines lines.
DocInputs == UNION {[1..k -> LineInputs] : k \in 0..MaxLines}

\* The text of a document: every line ends with a newline, the last one only
\* if `closed`.
DocText(doc, closed) ==
    Concat([i \in 1..Len(doc) |->
               IF i < Len(doc) \/ closed THEN doc[i] \o <<NL>> ELSE doc[i]])

\* Values given to add_domain_to_js directly (no case folding on this path).
JsDomains == {<<"b.edu">>, <<"canvas.", "b.edu">>}

\* add_domain_to_js is about to be called on content.js.
InitJs ==
    /\ domain \in JsDomains
    /\ \E doc \in DocInputs, closed \in BOOLEAN :
          js = [f \in JsFiles |->
                  IF f = "content.js" THEN File(DocText(doc, closed)) ELSE NoFile]
    /\ argv = <<>>
    /\ manifest = [exists |-> FALSE, valid |-> FALSE, raw |-> <<>>, data |-> NoData]
    /\ pc = "call1"
    /\ status = -1
    /\ err = ""
    /\ calls = <<>>
    /\ manifest0 = manifest
    /\ js0 = js
    /\ partial = FALSE
    /\ runs = 1

\* add_domain_to_js("content.js", domain), and a position to go to.
CallPatcher(at, next) ==
    /\ pc = at
    /\ \E r \in {add_domain_to_js(js["content.js"].text, domain)} :
           /\ js' = [js EXCEPT !["content.js"].text = r.text]
           /\ calls' = Append(calls,
                  Call("add_domain_to_js", "content.js", js["content.js"].text,
                       r.text, r.wrote, r.changes, ""))
    /\ pc' = next
    /\ UNCHANGED <<argv, domain, manifest, status, err, manifest0, js0, partial, runs>>

\* The first call.
FirstCall == CallPatcher("call1", "call2")

\* The same call again, on the file the first call left.
SecondCall == CallPatcher("call2", "called")

NextJs ==
    \/ FirstCall
    \/ SecondCall

SpecJs == InitJs /\ [][NextJs]_vars

\* ───────────────── properties of the chain patcher ────────────────

\* The document the first call read, and the document it left, as lines.
InLines == readlines(calls[1].before)

OutLines == readlines(calls[1].after)

\* A line the chain patcher is to rewrite: it matches, it does not hold the
\* quoted value, and its trimmed tail is neither empty nor "||".
ClaimTerminal(line, d) ==
    LET m == pattern_match(line)
    IN  m.ok /\ ~Contains(line, Quoted(d)) /\ Strip(m.tail) \notin {<<>>, <<OR>>}

\* Where line i of the input is found in the output: one line is added for
\* every terminal line before it.
Pos(i) == i + Cardinality({j \in 1..(i - 1) : ClaimTerminal(InLines[j], domain)})

\* A continuation line of a chain: it matches and its trimmed tail is "||".
MidChain(line) ==
    LET m == pattern_match(line)
    IN  m.ok /\ Strip(m.tail) = <<OR>>

\* The lines of the chain occurrence that ends at line i: line i and the run of
\* continuation lines right before it.
ChainOf(lines, i) == {j \in 1..i : \A k \in j..(i - 1) : MidChain(lines[k])}

\* C1: calling the chain patcher a second time with the same value on the file
\* the first call left returns 0 and leaves the file as the first call left it.
C1_Idempotent ==
    pc = "called" =>
        /\ calls[2].before = calls[1].after
        /\ calls[2].n = 0
        /\ ~calls[2].wrote
        /\ calls[2].after = calls[1].after
        /\ js["content.js"].text = calls[1].after

C1_Witness == pc = "called" /\ calls[1].n = 2 /\ calls[1].after # calls[1].before

C2Doc == <<SP, "if (", HOST, Q, "a.edu", Q, ") {", NL>>

C2Case == Len(calls) >= 1 /\ calls[1].before = C2Doc /\ domain = <<"b.edu">>

\* C2 as stated: the document [" if (hostname === 'a.edu') {\n"] patched with
\* b.edu becomes [" hostname === 'a.edu' ||\n", " hostname === 'b.edu') {\n"],
\* with change count 1.
C2_Original ==
    C2Case =>
        /\ calls[1].after = <<SP, HOST, Q, "a.edu", Q, SP, OR, NL,
                              SP, HOST, Q, "b.edu", Q, ") {", NL>>
        /\ calls[1].n = 1

\* C2 as amended: that document is left as it is, with change count 0 and no
\* write: a comparison preceded by other text than whitespace is not recognised.
C2_NotRecognised ==
    C2Case =>
        /\ calls[1].after = C2Doc
        /\ calls[1].n = 0
        /\ ~calls[1].wrote
        /\ js["content.js"].text = C2Doc

C2_Witness == C2Case /\ pc = "call2"

\* C6: the chain patcher inserts the value into no chain occurrence that holds
\* the quoted value on any of its lines, a continuation line included.
C6_NoDuplicatePerChain ==
    Len(calls) >= 1 =>
        \A i \in 1..Len(InLines) :
            patch_line(InLines[i], domain).n = 1 =>
                \A j \in ChainOf(InLines, i) : ~Contains(InLines[j], Quoted(domain))

\* C8: in place of every terminal line the output holds two adjacent lines,
\* <indent>hostname === '<literal>' || and <indent>hostname === '<value>'<tail>,
\* with the indent and the tail of the original line.
C8_TailIndentPreserved ==
    Len(calls) >= 1 =>
        \A i \in 1..Len(InLines) :
            ClaimTerminal(InLines[i], domain) =>
                LET m == pattern_match(InLines[i])
                IN  /\ Pos(i) + 1 <= Len(OutLines)
                    /\ OutLines[Pos(i)] = m.indent \o m.match_part \o <<SP, OR, NL>>
                    /\ OutLines[Pos(i) + 1] =
                           m.indent \o <<HOST, Q>> \o domain \o <<Q>> \o m.tail \o <<NL>>

C8_Witness ==
    /\ Len(calls) >= 1
    /\ \E i \in 1..Len(InLines) :
          /\ ClaimTerminal(InLines[i], domain)
          /\ pattern_match(InLines[i]).indent = <<SP, SP>>
          /\ pattern_match(InLines[i]).tail = <<") {">>
          /\ Pos(i) > i

\* C9: every input line that is no terminal line is in the output unchanged and
\* in its place, and the output has as many lines more than the input as the
\* change count, one for each terminal line.
C9_FrameAndGrowth ==
    Len(calls) >= 1 =>
        /\ \A i \in 1..Len(InLines) :
              ~ClaimTerminal(InLines[i], domain) =>
                  Pos(i) <= Len(OutLines) /\ OutLines[Pos(i)] = InLines[i]
        /\ Len(OutLines) = Len(InLines) + calls[1].n
        /\ calls[1].n =
              Cardinality({i \in 1..Len(InLines) : ClaimTerminal(InLines[i], domain)})

C9_Witness ==
    /\ Len(calls) >= 1
    /\ calls[1].n = 1
    /\ \E i \in 1..Len(InLines) : MidChain(InLines[i]) /\ Pos(i) > i

\* ───────────────── properties of the orchestrator ────────────────

\* No file differs from what it was when the run started, and no call wrote.
NothingWritten ==
    /\ manifest = manifest0
    /\ js = js0
    /\ \A i \in 1..Len(calls) : ~calls[i].wrote

\* The value, as main normalises it, occurs in the manifest the run started with.
GivenPresent ==
    /\ Len(argv) = 3
    /\ manifest0.exists
    /\ Contains(manifest_text(manifest0), Lower(argv[3]))

\* C3 as stated: a run given a value that is present in the manifest ends with
\* status 2 and has written none of the four files.
C3_Original == (pc = "done" /\ GivenPresent) => (status = 2 /\ NothingWritten)

\* C3 as amended: the same, provided all four files exist.
C3_PresentExits2 ==
    (pc = "done" /\ GivenPresent /\ all_files_exist(manifest0, js0)) =>
        (status = 2 /\ err = "exists" /\ calls = <<>> /\ NothingWritten)

C3_Witness ==
    /\ pc = "done"
    /\ GivenPresent
    /\ all_files_exist(manifest0, js0)
    /\ manifest0.valid
    /\ status = 2

\* C4: a run that ends on a wrong argument count, a missing file or a manifest
\* that does not parse (or on any other uncaught exception) ends with a status
\* other than 0 and has changed no file.
C4_FatalBeforeWrites ==
    (pc = "done" /\ err \in {"usage", "missing", "JSONDecodeError", "KeyError"}) =>
        (status = 1 /\ NothingWritten)

C4_Witness ==
    /\ pc = "done"
    /\ err = "JSONDecodeError"
    /\ Len(calls) = 1
    /\ calls[1].op = "update_manifest"

\* The document lacks host_permissions, or an object of content_scripts lacks matches.
LacksList(data) ==
    \/ ~data.has_hp
    \/ \E i \in 1..Len(get_content_scripts(data)) : ~data.content_scripts[i].has_matches

\* C5: update_manifest on a manifest that lacks a list field raises nothing and
\* writes the document with the pattern in host_permissions and in every
\* matches list.
C5_AbsentListsTolerated ==
    \A i \in 1..Len(calls) :
        (calls[i].op = "update_manifest" /\ manifest0.valid /\ LacksList(manifest0.data)) =>
            /\ calls[i].raised = ""
            /\ calls[i].wrote
            /\ InList(Pattern(domain), get_host_permissions(manifest.data))
            /\ \A k \in 1..Len(get_content_scripts(manifest.data)) :
                  InList(Pattern(domain), get_matches(manifest.data.content_scripts[k]))

\* The pattern is in host_permissions or in a matches list of content_scripts.
Recorded(data, p) ==
    \/ InList(p, get_host_permissions(data))
    \/ \E i \in 1..Len(get_content_scripts(data)) :
          InList(p, get_matches(data.content_scripts[i]))

\* C7: when all four files exist and the pattern of the value is in neither
\* list of the manifest, the run does not end with status 2 and calls the
\* manifest patcher, then the chain patcher on content.js, background.js and
\* popup.js, in this order.
C7_AbsentIsPatched ==
    (/\ pc = "done"
     /\ Len(argv) = 3
     /\ all_files_exist(manifest0, js0)
     /\ manifest0.valid
     /\ ~Recorded(manifest0.data, Pattern(Lower(argv[3])))) =>
        /\ status # 2
        /\ [i \in 1..Len(calls) |-> calls[i].file] =
              <<"manifest.json", "content.js", "background.js", "popup.js">>

\* C10: once a run was interrupted after the manifest was written and before
\* the last JS file was patched, no later step of a run with the same value
\* changes a file, and every such run that ends, ends with status 2.
C10_NoRecovery ==
    [][partial =>
          /\ manifest' = manifest
          /\ js' = js
          /\ (pc' = "done" => (status' = 2 /\ calls' = <<>>))]_vars

C10_Witness ==
    /\ partial
    /\ pc = "done"
    /\ status = 2
    /\ \E f \in JsFiles : add_domain_to_js(js[f].text, domain).changes > 0

====
